---- MODULE Spec2Model ----
(***************************************************************************)
(* A model of the AIO readiness checker: the Streamlit page script         *)
(* (aio_demo_app.py) and the Markdown-to-PDF renderer (pdf_generator.py).  *)
(*                                                                         *)
(* Text is modelled as sequences of one-character strings, so that strip,  *)
(* split, join and slicing are computed the way Python computes them.      *)
(* The Japanese literals of the source are written in ASCII:               *)
(*   "OK" / "fetch failed: <e>"   for  "OK" / f"取得失敗: {e}"             *)
(*   total, answerability, structured, faq_howto, brand, important_text    *)
(*       for the keys 総合スコア, 回答性, 構造化, FAQ/HowTo, ブランド性,   *)
(*       本文要約 of a result row.                                         *)
(***************************************************************************)
EXTENDS Integers, Sequences, FiniteSets, TLC

VARIABLES
    \* ---- the Streamlit session (aio_demo_app.py) ----
    config,        \* [endpoint, deployment, subscription_key], read once at start
    urls_text,     \* the text area's content, a sequence of characters
    lastRun,       \* "load" | "rerun" | "diagnose": what caused the last script run
    run,           \* number of "diagnose" clicks so far
    results,       \* the list `results` built by the last script run
    shown,         \* TRUE iff the last script run rendered the result area
    table,         \* rows of st.dataframe(df_display) on the page
    sections,      \* the per-URL sections rendered on the page, in order
    fetched,       \* per URL of the last run: TRUE iff requests.get and the parse succeeded
    calls,         \* rows for which analyze_page_with_llm was called in the last run
    crashed,       \* TRUE iff the last script run ended in an uncaught exception
    \* ---- scoring of one page (aio_demo_app.py 183-231) ----
    sc_in,         \* the observed signals of a page
    sc_out,        \* the scores computed from them, or NotRun
    \* ---- extract_important_sections ----
    ex_doc,        \* the parsed document
    ex_out,        \* the returned excerpt, or NotRun
    \* ---- MarkdownToPDF._add_table ----
    tb_lines,      \* table_lines, the rows handed to _add_table
    tb_out,        \* the cells drawn for the table, or NotRun
    \* ---- MarkdownToPDF.add_markdown ----
    md_lines,      \* markdown_text.split("\n")
    md_i,          \* the loop index i
    md_log         \* one entry per dispatch: [handler, from, to]

appVars == <<config, urls_text, lastRun, run, results, shown, table, sections,
             fetched, calls, crashed>>
scVars  == <<sc_in, sc_out>>
exVars  == <<ex_doc, ex_out>>
tbVars  == <<tb_lines, tb_out>>
mdVars  == <<md_lines, md_i, md_log>>
vars    == <<appVars, scVars, exVars, tbVars, mdVars>>

\* an output that is not computed yet; a computed output v is held as <<v>>
NotRun == <<>>

(***************************************************************************)
(* Python string primitives on character sequences.                        *)
(***************************************************************************)
SP == " "
NL == "\n"

RECURSIVE lstrip(_)
lstrip(s) == IF s = <<>> THEN s
             ELSE IF Head(s) \in {SP, NL} THEN lstrip(Tail(s)) ELSE s

RECURSIVE rstrip(_)
rstrip(s) == IF s = <<>> THEN s
             ELSE IF s[Len(s)] \in {SP, NL} THEN rstrip(SubSeq(s, 1, Len(s) - 1)) ELSE s

strip(s) == lstrip(rstrip(s))

\* s[:n]
Prefix(s, n) == SubSeq(s, 1, IF Len(s) < n THEN Len(s) ELSE n)

startswith(s, p) == Len(s) >= Len(p) /\ SubSeq(s, 1, Len(p)) = p

\* s.split(sep) for a one-character sep: always at least one piece
RECURSIVE SplitAcc(_, _, _)
SplitAcc(s, sep, cur) ==
    IF s = <<>> THEN <<cur>>
    ELSE IF Head(s) = sep THEN <<cur>> \o SplitAcc(Tail(s), sep, <<>>)
    ELSE SplitAcc(Tail(s), sep, Append(cur, Head(s)))

split(s, sep) == SplitAcc(s, sep, <<>>)

\* s.splitlines(): like split on the line break, but no piece for an empty
\* text and none after a final line break
splitlines(s) ==
    LET pieces == split(s, NL)
    IN  IF pieces[Len(pieces)] = <<>> THEN SubSeq(pieces, 1, Len(pieces) - 1)
        ELSE pieces

\* sep.join(parts)
RECURSIVE join(_, _)
join(sep, parts) ==
    IF parts = <<>> THEN <<>>
    ELSE IF Len(parts) = 1 THEN parts[1]
    ELSE parts[1] \o sep \o join(sep, Tail(parts))

RECURSIVE SelectNonEmpty(_)
SelectNonEmpty(ss) ==
    IF ss = <<>> THEN <<>>
    ELSE IF Head(ss) = <<>> THEN SelectNonEmpty(Tail(ss))
    ELSE <<Head(ss)>> \o SelectNonEmpty(Tail(ss))

\* [f(x) for x in ss]
StripAll(ss) == [k \in 1..Len(ss) |-> strip(ss[k])]

(***************************************************************************)
(* IEEE-754 binary64 arithmetic, as far as the aggregate needs it.         *)
(* A value is a sequence of Width bits, least significant first, in units  *)
(* of 2^-FracBits: every exact product and sum of the aggregate fits.      *)
(***************************************************************************)
FracBits == 55
Width == 62
Mantissa == 53

Zeros(n) == [k \in 1..n |-> 0]

Pad(bits) == bits \o Zeros(Width - Len(bits))

HexDigitBits(h) == <<h % 2, (h \div 2) % 2, (h \div 4) % 2, (h \div 8) % 2>>

RECURSIVE HexBits(_)
HexBits(digits) ==
    IF digits = <<>> THEN <<>>
    ELSE HexBits(Tail(digits)) \o HexDigitBits(Head(digits))

\* the double 0x1.<frac>p<exp>, exp >= -3
Double(frac, exp) == Pad(Zeros(exp + 3) \o HexBits(frac) \o <<1>>)

\* float(n) for a small non-negative int n
RECURSIVE IntBits(_)
IntBits(n) == IF n = 0 THEN <<>> ELSE <<n % 2>> \o IntBits(n \div 2)

FromInt(n) == Pad(Zeros(FracBits) \o IntBits(n))

RECURSIVE MulFrom(_, _, _, _)
MulFrom(x, n, k, carry) ==
    IF k > Width THEN <<>>
    ELSE LET s == x[k] * n + carry
         IN  <<s % 2>> \o MulFrom(x, n, k + 1, s \div 2)

RECURSIVE AddFrom(_, _, _, _)
AddFrom(x, y, k, carry) ==
    IF k > Width THEN <<>>
    ELSE LET s == x[k] + y[k] + carry
         IN  <<s % 2>> \o AddFrom(x, y, k + 1, s \div 2)

\* position of the highest set bit, 0 for zero
RECURSIVE MsbFrom(_, _)
MsbFrom(x, k) == IF k = 0 THEN 0 ELSE IF x[k] = 1 THEN k ELSE MsbFrom(x, k - 1)

\* round an exact value to the nearest double, ties to even
RoundToDouble(x) ==
    LET h == MsbFrom(x, Width)
        d == h - Mantissa
    IN  IF d <= 0 THEN x
        ELSE LET kept   == Zeros(d) \o SubSeq(x, d + 1, Width)
                 guard  == x[d]
                 sticky == \E k \in 1..(d - 1) : x[k] = 1
                 odd    == x[d + 1] = 1
                 ulp    == Pad(Zeros(d) \o <<1>>)
             IN  IF guard = 1 /\ (sticky \/ odd) THEN AddFrom(kept, ulp, 1, 0)
                 ELSE kept

\* c * n for a double c and an int n: float(n) is exact, the product is rounded
FMulInt(c, n) == RoundToDouble(MulFrom(c, n, 1, 0))

\* x + y for doubles
FAdd(x, y) == RoundToDouble(AddFrom(x, y, 1, 0))

RECURSIVE BitsValue(_)
BitsValue(bits) == IF bits = <<>> THEN 0 ELSE Head(bits) + 2 * BitsValue(Tail(bits))

\* round(x) of a double: to the nearest int, ties to the even one
PyRound(x) ==
    LET n      == BitsValue(SubSeq(x, FracBits + 1, Width))
        guard  == x[FracBits]
        sticky == \E k \in 1..(FracBits - 1) : x[k] = 1
    IN  IF guard = 1 /\ (sticky \/ n % 2 = 1) THEN n + 1 ELSE n

\* the literals 0.35, 0.25 and 0.15 as doubles
W_ans    == Double(<<6, 6, 6, 6, 6, 6, 6, 6, 6, 6, 6, 6, 6>>, -2)
W_struct == Double(<<0, 0, 0, 0, 0, 0, 0, 0, 0, 0, 0, 0, 0>>, -2)
W_faq    == Double(<<0, 0, 0, 0, 0, 0, 0, 0, 0, 0, 0, 0, 0>>, -2)
W_brand  == Double(<<3, 3, 3, 3, 3, 3, 3, 3, 3, 3, 3, 3, 3>>, -3)

(***************************************************************************)
(* The rule-based scores of one page.                                      *)
(***************************************************************************)
ans_score(text_len) ==
    IF text_len > 8000 THEN 100
    ELSE IF text_len > 4000 THEN 80
    ELSE IF text_len > 2000 THEN 60
    ELSE IF text_len > 1000 THEN 40
    ELSE 20

struct_score(has_ld, has_h1) ==
    50 + (IF has_ld THEN 30 ELSE 0) + (IF has_h1 THEN 20 ELSE 0)

faq_score(has_kw) == IF has_kw THEN 80 ELSE 20

brand_score(brand_count) ==
    IF brand_count > 30 THEN 100
    ELSE IF brand_count > 10 THEN 80
    ELSE IF brand_count > 3 THEN 60
    ELSE IF brand_count > 0 THEN 40
    ELSE 20

\* int(x + 0.5) of a double: halves go up
RoundHalfUp(x) ==
    BitsValue(SubSeq(x, FracBits + 1, Width)) + x[FracBits]

\* a variant that rounds halves up
total_half_up(a, s, f, b) ==
    RoundHalfUp(FAdd(FAdd(FAdd(FMulInt(W_ans, a), FMulInt(W_struct, s)),
                          FMulInt(W_faq, f)),
                     FMulInt(W_brand, b)))

\* round(0.35 * a + 0.25 * s + 0.25 * f + 0.15 * b), evaluated left to right
total(a, s, f, b) ==
    PyRound(FAdd(FAdd(FAdd(FMulInt(W_ans, a), FMulInt(W_struct, s)),
                      FMulInt(W_faq, f)),
                 FMulInt(W_brand, b)))

\* the scores of a page whose observed signals are sig
Scores(sig) ==
    LET a == ans_score(sig.text_len)
        s == struct_score(sig.has_ld, sig.has_h1)
        f == faq_score(sig.has_kw)
        b == brand_score(sig.brand_count)
    IN  [total |-> total(a, s, f, b), answerability |-> a, structured |-> s,
         faq_howto |-> f, brand |-> b]

(***************************************************************************)
(* extract_important_sections.                                             *)
(* A parsed document is the sequence of its elements in document order;    *)
(* an element is [tag, text, parent]: its tag name, its own text node and  *)
(* the index of the element that contains it (0: the top level).           *)
(***************************************************************************)
MaxExcerpt == 3000

Min(S) == CHOOSE m \in S : \A k \in S : m <= k

\* tag.name.upper() inside "[...] "
HeadingLabel(tag) ==
    CASE tag = "h1" -> <<"[", "H", "1", "]", SP>>
      [] tag = "h2" -> <<"[", "H", "2", "]", SP>>
      [] tag = "h3" -> <<"[", "H", "3", "]", SP>>

Bullet == <<"-", SP>>

\* element.get_text(strip=True) of an element that holds one text node
get_text_strip(node) == strip(node.text)

\* element.find_next_sibling("p"): the index of the first later element with
\* the same parent whose tag is p, 0 when there is none
find_next_sibling_p(doc, i) ==
    LET later == {j \in (i + 1)..Len(doc) :
                      doc[j].parent = doc[i].parent /\ doc[j].tag = "p"}
    IN  IF later = {} THEN 0 ELSE Min(later)

\* soup.find("h1"): the index of the first h1 in document order, 0 when none
find_h1(doc) ==
    LET all == {i \in 1..Len(doc) : doc[i].tag = "h1"}
    IN  IF all = {} THEN 0 ELSE Min(all)

\* a variant that takes the paragraph only when it is the very next sibling
HeadingPartsAdjacent(doc, i) ==
    LET later == {j \in (i + 1)..Len(doc) : doc[j].parent = doc[i].parent}
        p     == IF later # {} /\ doc[Min(later)].tag = "p" THEN Min(later) ELSE 0
    IN  <<HeadingLabel(doc[i].tag) \o get_text_strip(doc[i])>>
        \o (IF p # 0 THEN <<Bullet \o get_text_strip(doc[p])>> ELSE <<>>)

\* the lines appended for the heading at index i: its tagged line, and the
\* bulleted text of its next paragraph sibling when there is one
HeadingParts(doc, i) ==
    LET p == find_next_sibling_p(doc, i)
    IN  <<HeadingLabel(doc[i].tag) \o get_text_strip(doc[i])>>
        \o (IF p # 0 THEN <<Bullet \o get_text_strip(doc[p])>> ELSE <<>>)

\* the H1 block (source lines 27-32)
H1Parts(doc) ==
    LET h1 == find_h1(doc)
    IN  IF h1 # 0 THEN HeadingParts(doc, h1) ELSE <<>>

\* the loop over soup.find_all(["h2", "h3"]), from element i on
RECURSIVE H23Parts(_, _)
H23Parts(doc, i) ==
    IF i > Len(doc) THEN <<>>
    ELSE (IF doc[i].tag \in {"h2", "h3"} THEN HeadingParts(doc, i) ELSE <<>>)
         \o H23Parts(doc, i + 1)

\* soup.get_text(separator=" ", strip=True)
soup_get_text(doc) ==
    join(<<SP>>, SelectNonEmpty([k \in 1..Len(doc) |-> strip(doc[k].text)]))

extract_important_sections(doc) ==
    LET parts == H1Parts(doc) \o H23Parts(doc, 1)
    IN  IF parts = <<>> THEN Prefix(soup_get_text(doc), MaxExcerpt)
        ELSE Prefix(join(<<NL>>, parts), MaxExcerpt)

\* ---- the documents the extractor is run on ----
MaxNodes == 3
LongLen == 3005

Tags == {"h1", "h2", "h3", "p", "div"}
LongText == [k \in 1..LongLen |-> "x"]
NodeTexts == {<<>>, <<SP, "a", SP>>, LongText}

\* elements nest inside div elements only, and the order is document order:
\* an element's parent is the top level, or a div among the ancestors-or-self
\* of the element before it
RECURSIVE AncestorsOrSelf(_, _)
AncestorsOrSelf(parents, i) ==
    IF i = 0 THEN {0} ELSE {i} \cup AncestorsOrSelf(parents, parents[i])

WellFormed(tags, parents) ==
    /\ \A i \in DOMAIN tags : parents[i] < i
    /\ \A i \in DOMAIN tags :
          /\ parents[i] \in AncestorsOrSelf(parents, i - 1)
          /\ parents[i] # 0 => tags[parents[i]] = "div"

\* at most one element carries the long text
AtMostOneLong(texts) ==
    Cardinality({i \in DOMAIN texts : texts[i] = LongText}) <= 1

\* important_text = extract_important_sections(soup)
Extract ==
    /\ ex_out = NotRun
    /\ ex_out' = <<extract_important_sections(ex_doc)>>
    /\ UNCHANGED ex_doc

(***************************************************************************)
(* MarkdownToPDF._add_table.                                               *)
(* Rows are written over an alphabet without ` and *, on which the three   *)
(* re.sub calls that strip inline markup change nothing.                   *)
(***************************************************************************)
PIPE == "|"
MaxCell == 30

\* parse_row: [cell.strip() for cell in row.split("|") if cell.strip()]
parse_row(row) == SelectNonEmpty(StripAll(split(row, PIPE)))

\* re.match(r'^[\s\-:]+$', cell) for a stripped cell
IsSeparatorCell(cell) ==
    /\ cell # <<>>
    /\ \A k \in 1..Len(cell) : cell[k] \in {SP, "-", ":"}

is_separator_row(row) ==
    LET cells == parse_row(row)
    IN  /\ cells # <<>>
        /\ \A k \in 1..Len(cells) : IsSeparatorCell(cells[k])

\* data_rows as indices into table_lines: table_lines[2:] when the second
\* row is a separator row, table_lines[1:] otherwise
FirstDataRow(table_lines) ==
    IF Len(table_lines) > 1 /\ is_separator_row(table_lines[2]) THEN 3 ELSE 2

\* cell_text[:30] + "..." if len(cell_text) > 30 else cell_text
DataCellText(cell) ==
    IF Len(cell) > MaxCell THEN Prefix(cell, MaxCell) \o <<".", ".", ".">> ELSE cell

\* whether the data loop draws this row (source lines 163-172)
DrawsRow(row, header_cells) ==
    LET cells == parse_row(row)
    IN  /\ ~is_separator_row(row)
        /\ Len(cells) = Len(header_cells)
        /\ ~(\A k \in 1..Len(cells) : strip(cells[k]) = <<>>)

\* the data loop from row k on: the rows drawn, each with its index in
\* table_lines and its cell texts
RECURSIVE DrawnRows(_, _, _)
DrawnRows(table_lines, header_cells, k) ==
    IF k > Len(table_lines) THEN <<>>
    ELSE (IF DrawsRow(table_lines[k], header_cells)
          THEN <<[src |-> k,
                  cells |-> [c \in 1..Len(header_cells) |->
                               DataCellText(parse_row(table_lines[k])[c])]]>>
          ELSE <<>>)
         \o DrawnRows(table_lines, header_cells, k + 1)

NothingDrawn == [headers |-> <<>>, rows |-> <<>>]

\* what _add_table draws: the header rows (each a sequence of cell texts) and
\* the data rows
add_table(table_lines) ==
    IF Len(table_lines) < 2 THEN NothingDrawn
    ELSE LET header_cells == parse_row(table_lines[1])
         IN  IF header_cells = <<>> THEN NothingDrawn
             ELSE [headers |-> <<header_cells>>,
                   rows |-> DrawnRows(table_lines, header_cells,
                                      FirstDataRow(table_lines))]

\* ---- the tables _add_table is run on ----
MaxTableRows == 3
LongCellLen == 31

LongCell == [k \in 1..LongCellLen |-> "y"]

TableRowSamples ==
    { <<PIPE, "a", PIPE, "b", PIPE>>,                  \* |a|b|
      <<PIPE, "-", PIPE, "-", PIPE>>,                  \* |-|-|
      <<PIPE, SP, "-", SP, PIPE, ":", "-", PIPE>>,     \* | - |:-|
      <<PIPE, "a", PIPE, PIPE>>,                       \* |a||
      <<PIPE, "a", PIPE, PIPE, SP, "b", PIPE>>,        \* |a|| b|
      <<PIPE, "a", PIPE>>,                             \* |a|
      <<PIPE, SP, PIPE, SP, PIPE>>,                    \* | | |
      <<PIPE, "b", PIPE, "a">>,                        \* |b|a
      <<PIPE, "-", PIPE>>,                             \* |-|
      <<PIPE, "a", PIPE, "-", PIPE>>,                  \* |a|-|
      <<SP, PIPE, "b", PIPE, "b", PIPE>>,              \*  |b|b|
      <<PIPE>> \o LongCell \o <<PIPE, "b", PIPE>> }    \* |yyy...y|b|

RECURSIVE SeqsUpTo(_, _)
SeqsUpTo(S, n) ==
    IF n = 0 THEN {<<>>}
    ELSE LET shorter == SeqsUpTo(S, n - 1)
         IN  shorter \cup {Append(t, x) : t \in shorter, x \in S}

\* self._add_table(table_lines)
AddTable ==
    /\ tb_out = NotRun
    /\ tb_out' = <<add_table(tb_lines)>>
    /\ UNCHANGED tb_lines

(***************************************************************************)
(* MarkdownToPDF.add_markdown: one action per iteration of the while loop. *)
(* Lines hold at most one * and no ` outside a fence line, so the inline   *)
(* markup substitutions change nothing.                                    *)
(***************************************************************************)
\* the backtick, written ~ (a backtick cannot stand in a TLA+ string)
BT == "~"
Fence == <<BT, BT, BT>>

IsTableLine(raw) == startswith(strip(raw), <<PIPE>>)

\* a variant that goes on with the line after the first one (i += 1)
TableEndNextLine(lines, j) == j

\* the inner while loop: the first index j > i whose line is no table line
RECURSIVE TableEnd(_, _)
TableEnd(lines, j) ==
    IF j <= Len(lines) /\ IsTableLine(lines[j]) THEN TableEnd(lines, j + 1) ELSE j

\* line.lstrip("#") and line.lstrip("# ")
RECURSIVE lstrip_chars(_, _)
lstrip_chars(s, chars) ==
    IF s = <<>> THEN s
    ELSE IF Head(s) \in chars THEN lstrip_chars(Tail(s), chars) ELSE s

\* re.sub(r"^[\s]*[-*]\s+", "", line).strip()
list_text(line) ==
    LET body == lstrip(line)
    IN  IF /\ Len(body) >= 2
           /\ body[1] \in {"-", "*"}
           /\ body[2] = SP
        THEN strip(lstrip(Tail(body)))
        ELSE strip(line)

\* the handler the loop body picks for lines[i], with what it hands to the
\* drawing helper and the index the loop continues at
Dispatch(lines, i) ==
    LET line == rstrip(lines[i])
    IN  IF startswith(strip(line), Fence)
        THEN [handler |-> "fence", next |-> i + 1, drawn |-> <<>>]
        ELSE IF line = <<>>
        THEN [handler |-> "blank", next |-> i + 1, drawn |-> <<>>]
        ELSE IF startswith(line, <<"#">>)
        THEN [handler |-> "heading", next |-> i + 1,
              drawn |-> <<Len(line) - Len(lstrip_chars(line, {"#"})),
                          strip(lstrip_chars(line, {"#", SP}))>>]
        ELSE IF startswith(strip(line), <<PIPE>>)
        THEN LET j == TableEnd(lines, i + 1)
             IN  [handler |-> "table", next |-> j,
                  drawn |-> add_table(<<line>> \o
                               [k \in 1..(j - i - 1) |-> rstrip(lines[i + k])])]
        ELSE IF startswith(strip(line), <<"-">>) \/ startswith(strip(line), <<"*">>)
        THEN [handler |-> "list", next |-> i + 1, drawn |-> list_text(line)]
        ELSE [handler |-> "text", next |-> i + 1, drawn |-> line]

\* ---- the Markdown texts add_markdown is run on ----
MaxMdLines == 3

MdLineSamples ==
    { <<>>,                                \* empty line
      <<SP>>,                              \* blank after rstrip
      Fence \o <<"a">>,                    \* ```a
      <<"#", "#", SP, "a">>,               \* ## a
      <<SP, "#">>,                         \*  #   (no heading: text)
      <<PIPE, "a", PIPE, "b", PIPE>>,      \* |a|b|
      <<SP, PIPE, "-", PIPE, "-", PIPE>>,  \*  |-|-|
      <<PIPE, "b", PIPE, "a", SP>>,        \* |b|a
      <<"-", SP, "a">>,                    \* - a
      <<SP, "*", "a">>,                    \*  *a
      <<"a", PIPE>> }                      \* a|

\* markdown_text.split("\n") of the texts made of up to MaxMdLines samples
MdTexts == {split(join(<<NL>>, ls), NL) : ls \in SeqsUpTo(MdLineSamples, MaxMdLines)}

\* what the loop body does at each index of each text (Dispatch, tabulated)
DispatchAt == [lines \in MdTexts |-> [i \in 1..Len(lines) |-> Dispatch(lines, i)]]

\* the call: lines = markdown_text.split("\n"); i = 0.  The indices are
\* 1-based here, and md_i = 0 stands for "not called yet".
MdBegin ==
    /\ md_lines = <<>>
    /\ md_lines' \in MdTexts
    /\ md_i' = 1
    /\ md_log' = <<>>

\* one iteration of `while i < len(lines)`
MdStep ==
    /\ md_lines # <<>>
    /\ md_i <= Len(md_lines)
    /\ LET d == DispatchAt[md_lines][md_i]
       IN  /\ md_i' = d.next
           /\ md_log' = Append(md_log, [handler |-> d.handler, from |-> md_i,
                                        to |-> d.next - 1, drawn |-> d.drawn])
    /\ UNCHANGED md_lines

(***************************************************************************)
(* The page script of aio_demo_app.py.  Streamlit runs the whole script    *)
(* again on every interaction; st.button returns True only in the run its  *)
(* click caused.  Nothing of one run is kept for the next but the widgets' *)
(* values (here: the text area).                                           *)
(***************************************************************************)
\* os.getenv gives None for an unset variable
None == "None"
SettingValues == {None, "", "set"}

\* Python truth of a setting
Truthy(v) == v \notin {None, ""}

\* a variant that forgets the deployment
LLMConfiguredNoDeployment(cfg) ==
    Truthy(cfg.subscription_key) /\ Truthy(cfg.endpoint)

\* `if subscription_key and endpoint and deployment`
LLMConfigured(cfg) ==
    Truthy(cfg.subscription_key) /\ Truthy(cfg.endpoint) /\ Truthy(cfg.deployment)

OK == "OK"
FailStatus(e) == "fetch failed: " \o e

\* urls = [u.strip() for u in urls_text.splitlines() if u.strip()]
ParseUrls(text) == SelectNonEmpty(StripAll(splitlines(text)))

\* the pages a fetch can return in a session
SamplePages ==
    { [doc |-> << [tag |-> "h1", text |-> <<SP, "a">>, parent |-> 0],
                  [tag |-> "p", text |-> <<"b">>, parent |-> 0] >>,
       has_ld |-> TRUE, has_kw |-> TRUE, brand_count |-> 4],
      [doc |-> << [tag |-> "div", text |-> <<"a">>, parent |-> 0] >>,
       has_ld |-> FALSE, has_kw |-> FALSE, brand_count |-> 0] }

NoPage == [doc |-> <<>>, has_ld |-> FALSE, has_kw |-> FALSE, brand_count |-> 0]

\* the `except` branch: the row of a URL whose fetch raised e
FailedRow(url, e) ==
    [URL |-> url, status |-> FailStatus(e), total |-> 0, answerability |-> 0,
     structured |-> 0, faq_howto |-> 0, brand |-> 0, important_text |-> <<>>]

\* what the script observes of a fetched page: its text length, the ld+json
\* script tag, an h1, a FAQ keyword, the brand token's count
Signals(page) ==
    [text_len |-> Len(soup_get_text(page.doc)), has_ld |-> page.has_ld,
     has_h1 |-> find_h1(page.doc) # 0, has_kw |-> page.has_kw,
     brand_count |-> page.brand_count]

\* the row of a URL whose page was fetched and parsed
OkRow(url, page) ==
    LET sc == Scores(Signals(page))
    IN  [URL |-> url, status |-> OK, total |-> sc.total,
         answerability |-> sc.answerability, structured |-> sc.structured,
         faq_howto |-> sc.faq_howto, brand |-> sc.brand,
         important_text |-> extract_important_sections(page.doc)]

\* OkRow of each sample page, computed once (the URL is filled in per row)
PageRow == [pg \in SamplePages |-> OkRow(<<>>, pg)]

\* one iteration of `for url in urls`
ResultRow(url, fetch) ==
    IF fetch.ok THEN [PageRow[fetch.page] EXCEPT !.URL = url]
    ELSE FailedRow(url, fetch.e)

\* a variant that keeps the rows of the run before (no `results = []`)
KeptResults == results

\* results = []
FreshResults == <<>>

\* a variant whose loop ends at the first failed fetch (`break` for `continue`)
DiagnosisUntilFailure(urls, fetch) ==
    LET failed == {k \in 1..Len(urls) : ~fetch[k].ok}
        last   == IF failed = {} THEN Len(urls) ELSE Min(failed)
    IN  FreshResults \o [k \in 1..last |-> ResultRow(urls[k], fetch[k])]

\* the loop `for url in urls`: every URL appends one row, in order
Diagnosis(urls, fetch) ==
    FreshResults \o [k \in 1..Len(urls) |-> ResultRow(urls[k], fetch[k])]

\* df.drop(columns=[important_text])
DisplayRow(row) ==
    [URL |-> row.URL, status |-> row.status, total |-> row.total,
     answerability |-> row.answerability, structured |-> row.structured,
     faq_howto |-> row.faq_howto, brand |-> row.brand]

level(score) ==
    IF score >= 80 THEN "good" ELSE IF score >= 60 THEN "needs improvement"
    ELSE "priority fix"

priority(score) ==
    IF score >= 80 THEN "low" ELSE IF score >= 60 THEN "medium" ELSE "high"

ScoreLine(name, v) ==
    [name |-> name, score |-> v, level |-> level(v), priority |-> priority(v)]

\* the score summary table of a row (table_lines without its two head lines)
ScoreTable(row) ==
    << ScoreLine("answerability", row.answerability),
       ScoreLine("structured", row.structured),
       ScoreLine("faq_howto", row.faq_howto),
       ScoreLine("brand", row.brand) >>

RateLimitHeading == "#### rate limit reached"
ErrorHeading == "#### error during AI detailed analysis"
Md(heading, detail) == [heading |-> heading, detail |-> detail]

\* analyze_page_with_llm under one outcome of the service client:
\*   "client_error": AzureOpenAI(...) raises (the line is outside the try)
\*   "rate_limit":   chat.completions.create raises RateLimitError
\*   "error":        it raises another Exception
\*   any other:      the text of the first choice
analyze_page_with_llm(url, page_text, scores, outcome) ==
    IF outcome = "client_error" THEN [raised |-> TRUE, text |-> Md("", "")]
    ELSE IF outcome = "rate_limit"
    THEN [raised |-> FALSE, text |-> Md(RateLimitHeading, "")]
    ELSE IF outcome = "error"
    THEN [raised |-> FALSE, text |-> Md(ErrorHeading, "error text")]
    ELSE [raised |-> FALSE, text |-> Md("", outcome)]

NoBody == [kind |-> "none", text |-> Md("", ""), run |-> 0]

FailedSection(row) ==
    [URL |-> row.URL, kind |-> "failed", score_table |-> <<>>, body |-> NoBody]

OkSection(row, body) ==
    [URL |-> row.URL, kind |-> "ok", score_table |-> ScoreTable(row), body |-> body]

\* whether the loop body asks the LLM for this row's report
CallsLLM(cfg, row) == row.status = OK /\ LLMConfigured(cfg)

\* the loop `for row in results` from row k on, in diagnose run r: the
\* sections drawn, the rows analyze_page_with_llm was called for, and whether
\* an exception ended the script before the loop was through
RECURSIVE RenderFrom(_, _, _, _, _)
RenderFrom(rows, llm, k, cfg, r) ==
    IF k > Len(rows) THEN [sections |-> <<>>, calls |-> <<>>, crashed |-> FALSE]
    ELSE LET row  == rows[k]
             rest == RenderFrom(rows, llm, k + 1, cfg, r)
         IN  IF row.status # OK
             THEN [rest EXCEPT !.sections = <<FailedSection(row)>> \o @]
             ELSE IF ~CallsLLM(cfg, row)
             THEN [rest EXCEPT !.sections =
                      <<OkSection(row, [kind |-> "notice", text |-> Md("", ""),
                                        run |-> 0])>> \o @]
             ELSE LET rep == analyze_page_with_llm(row.URL, row.important_text,
                                                   ScoreTable(row), llm[k])
                  IN  IF rep.raised
                      THEN [sections |-> <<OkSection(row, NoBody)>>,
                            calls |-> <<k>>, crashed |-> TRUE]
                      ELSE [rest EXCEPT
                              !.sections =
                                 <<OkSection(row, [kind |-> "report",
                                                   text |-> rep.text,
                                                   run |-> r])>> \o @,
                              !.calls = <<k>> \o @]

\* ---- the inputs of a session ----
MaxTextLen == 3
MaxRuns == 2

UrlChars == {"a", SP, NL}
DefaultText == <<"a">>

FetchOutcomes ==
    {[ok |-> FALSE, e |-> "timeout", page |-> NoPage]}
    \cup {[ok |-> TRUE, e |-> "", page |-> pg] : pg \in SamplePages}

LLMOutcomes == {"client_error", "rate_limit", "error", "report A", "report B"}

\* the outcomes of the LLM calls of one run; without a complete configuration
\* the script never consults them, and one stands for all
LLMOutcomesUnder(cfg) == IF LLMConfigured(cfg) THEN LLMOutcomes ELSE {"report A"}

\* a script run in which st.button returns False: the `if` body is skipped,
\* so the page holds the title, the caption and the text area only
PlainRun ==
    /\ lastRun' = "rerun"
    /\ results' = <<>>
    /\ shown' = FALSE
    /\ table' = <<>>
    /\ sections' = <<>>
    /\ fetched' = <<>>
    /\ calls' = <<>>
    /\ crashed' = FALSE
    /\ UNCHANGED <<config, run>>

\* the user changes the text area (one more character, or one fewer): the
\* script runs again, the button not clicked
TypeChar ==
    /\ Len(urls_text) < MaxTextLen
    /\ \E c \in UrlChars : urls_text' = Append(urls_text, c)
    /\ PlainRun

DeleteChar ==
    /\ urls_text # <<>>
    /\ urls_text' = SubSeq(urls_text, 1, Len(urls_text) - 1)
    /\ PlainRun

\* any other rerun of the page (the browser reloads or reconnects)
Rerun ==
    /\ UNCHANGED urls_text
    /\ PlainRun

\* the user clicks the button: the script runs with st.button returning True
Diagnose ==
    /\ run < MaxRuns
    /\ LET urls == ParseUrls(urls_text)
       IN  \E fetch \in [1..Len(urls) -> FetchOutcomes] :
             \E llm \in [1..Len(urls) -> LLMOutcomesUnder(config)] :
               LET rows == Diagnosis(urls, fetch)
                   page == RenderFrom(rows, llm, 1, config, run + 1)
               IN  /\ fetched' = [k \in 1..Len(urls) |-> fetch[k].ok]
                   /\ results' = rows
                   /\ table' = [k \in 1..Len(rows) |-> DisplayRow(rows[k])]
                   /\ sections' = page.sections
                   /\ calls' = page.calls
                   /\ crashed' = page.crashed
    /\ shown' = TRUE
    /\ lastRun' = "diagnose"
    /\ run' = run + 1
    /\ UNCHANGED <<config, urls_text>>

(***************************************************************************)
(* Scoring one page.                                                       *)
(***************************************************************************)
LenSamples == {0} \cup UNION {{t, t + 1} : t \in {1000, 2000, 4000, 8000}}
CountSamples == {0} \cup UNION {{t, t + 1} : t \in {0, 3, 10, 30}}

\* source lines 183-231 for one fetched page
ScorePage ==
    /\ sc_out = NotRun
    /\ sc_out' = <<Scores(sc_in)>>
    /\ UNCHANGED sc_in

(***************************************************************************)
(* The specifications: one for the session, and one for each function that *)
(* is run on inputs of its own.  The variables of the parts a specification*)
(* does not run keep their initial values.                                 *)
(***************************************************************************)
\* a session starts: the settings are read, the page is loaded
Init ==
    /\ config \in [endpoint : SettingValues, deployment : SettingValues,
                   subscription_key : SettingValues]
    /\ urls_text = DefaultText
    /\ lastRun = "load"
    /\ run = 0
    /\ results = <<>>
    /\ shown = FALSE
    /\ table = <<>>
    /\ sections = <<>>
    /\ fetched = <<>>
    /\ calls = <<>>
    /\ crashed = FALSE
    /\ sc_in = [text_len |-> 0, has_ld |-> FALSE, has_h1 |-> FALSE,
                has_kw |-> FALSE, brand_count |-> 0]
    /\ sc_out = NotRun
    /\ ex_doc = <<>>
    /\ ex_out = NotRun
    /\ tb_lines = <<>>
    /\ tb_out = NotRun
    /\ md_lines = <<>>
    /\ md_i = 0
    /\ md_log = <<>>

Next ==
    \/ TypeChar /\ UNCHANGED <<scVars, exVars, tbVars, mdVars>>
    \/ DeleteChar /\ UNCHANGED <<scVars, exVars, tbVars, mdVars>>
    \/ Rerun /\ UNCHANGED <<scVars, exVars, tbVars, mdVars>>
    \/ Diagnose /\ UNCHANGED <<scVars, exVars, tbVars, mdVars>>

Spec == Init /\ [][Next]_vars

\* the signals of a fetched page
ScoreInit ==
    /\ config = [endpoint |-> None, deployment |-> None, subscription_key |-> None]
    /\ urls_text = DefaultText
    /\ lastRun = "load"
    /\ run = 0
    /\ results = <<>>
    /\ shown = FALSE
    /\ table = <<>>
    /\ sections = <<>>
    /\ fetched = <<>>
    /\ calls = <<>>
    /\ crashed = FALSE
    /\ sc_in \in [text_len : LenSamples, has_ld : BOOLEAN, has_h1 : BOOLEAN,
                  has_kw : BOOLEAN, brand_count : CountSamples]
    /\ sc_out = NotRun
    /\ ex_doc = <<>>
    /\ ex_out = NotRun
    /\ tb_lines = <<>>
    /\ tb_out = NotRun
    /\ md_lines = <<>>
    /\ md_i = 0
    /\ md_log = <<>>

ScoreNext == ScorePage /\ UNCHANGED <<appVars, exVars, tbVars, mdVars>>

SpecScore == ScoreInit /\ [][ScoreNext]_vars

\* soup = BeautifulSoup(html, "html.parser")
ExtractInit ==
    /\ config = [endpoint |-> None, deployment |-> None, subscription_key |-> None]
    /\ urls_text = DefaultText
    /\ lastRun = "load"
    /\ run = 0
    /\ results = <<>>
    /\ shown = FALSE
    /\ table = <<>>
    /\ sections = <<>>
    /\ fetched = <<>>
    /\ calls = <<>>
    /\ crashed = FALSE
    /\ sc_in = [text_len |-> 0, has_ld |-> FALSE, has_h1 |-> FALSE,
                has_kw |-> FALSE, brand_count |-> 0]
    /\ sc_out = NotRun
    /\ \E n \in 0..MaxNodes :
         \E tags \in [1..n -> Tags] :
           \E parents \in [1..n -> 0..(n - 1)] :
             /\ WellFormed(tags, parents)
             /\ \E texts \in [1..n -> NodeTexts] :
                  /\ AtMostOneLong(texts)
                  /\ ex_doc = [i \in 1..n |->
                                 [tag |-> tags[i], text |-> texts[i],
                                  parent |-> parents[i]]]
    /\ ex_out = NotRun
    /\ tb_lines = <<>>
    /\ tb_out = NotRun
    /\ md_lines = <<>>
    /\ md_i = 0
    /\ md_log = <<>>

ExtractNext == Extract /\ UNCHANGED <<appVars, scVars, tbVars, mdVars>>

SpecExtract == ExtractInit /\ [][ExtractNext]_vars

\* table_lines: at least one row, as add_markdown collects them
TableInit ==
    /\ config = [endpoint |-> None, deployment |-> None, subscription_key |-> None]
    /\ urls_text = DefaultText
    /\ lastRun = "load"
    /\ run = 0
    /\ results = <<>>
    /\ shown = FALSE
    /\ table = <<>>
    /\ sections = <<>>
    /\ fetched = <<>>
    /\ calls = <<>>
    /\ crashed = FALSE
    /\ sc_in = [text_len |-> 0, has_ld |-> FALSE, has_h1 |-> FALSE,
                has_kw |-> FALSE, brand_count |-> 0]
    /\ sc_out = NotRun
    /\ ex_doc = <<>>
    /\ ex_out = NotRun
    /\ tb_lines \in SeqsUpTo(TableRowSamples, MaxTableRows) \ {<<>>}
    /\ tb_out = NotRun
    /\ md_lines = <<>>
    /\ md_i = 0
    /\ md_log = <<>>

TableNext == AddTable /\ UNCHANGED <<appVars, scVars, exVars, mdVars>>

SpecTable == TableInit /\ [][TableNext]_vars

\* before add_markdown is called
MdInit ==
    /\ config = [endpoint |-> None, deployment |-> None, subscription_key |-> None]
    /\ urls_text = DefaultText
    /\ lastRun = "load"
    /\ run = 0
    /\ results = <<>>
    /\ shown = FALSE
    /\ table = <<>>
    /\ sections = <<>>
    /\ fetched = <<>>
    /\ calls = <<>>
    /\ crashed = FALSE
    /\ sc_in = [text_len |-> 0, has_ld |-> FALSE, has_h1 |-> FALSE,
                has_kw |-> FALSE, brand_count |-> 0]
    /\ sc_out = NotRun
    /\ ex_doc = <<>>
    /\ ex_out = NotRun
    /\ tb_lines = <<>>
    /\ tb_out = NotRun
    /\ md_lines = <<>>
    /\ md_i = 0
    /\ md_log = <<>>

MdCall == MdBegin /\ UNCHANGED <<appVars, scVars, exVars, tbVars>>

MdLoop == MdStep /\ UNCHANGED <<appVars, scVars, exVars, tbVars>>

MdNext == MdCall \/ MdLoop

\* once called, the loop runs on until its condition fails: weak fairness
\* of its iteration
SpecMd == MdInit /\ [][MdNext]_vars /\ WF_vars(MdLoop)

(***************************************************************************)
(* The claims about the session (specification Spec).                      *)
(***************************************************************************)
Range(f) == {f[k] : k \in DOMAIN f}

\* the lines of a text that hold a character other than white space
NonBlankLines(text) ==
    LET ls == split(text, NL)
    IN  {k \in 1..Len(ls) : \E c \in 1..Len(ls[k]) : ls[k][c] \notin {SP, NL}}

Trimmed(u) == u # <<>> /\ u[1] \notin {SP, NL} /\ u[Len(u)] \notin {SP, NL}

FailureMarked(status) ==
    status # OK /\ \E o \in FetchOutcomes : status = FailStatus(o.e)

AllZero(row) ==
    /\ row.total = 0
    /\ row.answerability = 0
    /\ row.structured = 0
    /\ row.faq_howto = 0
    /\ row.brand = 0

\* C1: a diagnose action yields exactly one result per URL (the trimmed,
\* non-blank lines, duplicates kept), in input order; a result whose fetch
\* failed carries the failure marker, zero scores and an empty excerpt; a
\* failure never keeps the URLs after it from getting their results.
C1_OneResultPerUrl ==
    lastRun = "diagnose" =>
        LET urls == ParseUrls(urls_text)
        IN  /\ Len(results) = Cardinality(NonBlankLines(urls_text))
            /\ Len(results) = Len(urls)
            /\ Len(fetched) = Len(urls)
            /\ \A k \in 1..Len(results) :
                 /\ results[k].URL = urls[k]
                 /\ Trimmed(results[k].URL)
                 /\ fetched[k] => results[k].status = OK
                 /\ ~fetched[k] =>
                      /\ FailureMarked(results[k].status)
                      /\ AllZero(results[k])
                      /\ results[k].important_text = <<>>

\* a failed fetch at position 1 of two equal URLs, the second one diagnosed
C1_Witness ==
    /\ lastRun = "diagnose"
    /\ Len(results) = 2
    /\ ~fetched[1] /\ fetched[2]
    /\ results[1].URL = results[2].URL
    /\ results[1].total = 0
    /\ results[2].status = OK

ReportShown(secs, k) == k \in DOMAIN secs /\ secs[k].body.kind = "report"

\* C2: a redraw that is no diagnose action issues no LLM call for a URL
\* whose report was generated, and the report shown for that URL after the
\* redraw is the text shown before it.
C2_RedrawReusesReport ==
    [][(lastRun' = "rerun") =>
          /\ calls' = <<>>
          /\ \A k \in DOMAIN sections :
               ReportShown(sections, k) =>
                   /\ ReportShown(sections', k)
                   /\ sections'[k].body.text = sections[k].body.text]_vars

\* C3: once a diagnose action produced a batch, every later redraw that is
\* no diagnose action still renders the results table and the sections.
C3_BatchSurvivesRedraw ==
    [][(shown /\ lastRun' = "rerun") =>
          /\ shown'
          /\ table' = table
          /\ Len(sections') = Len(sections)]_vars

\* C4: a new diagnose action discards the reports of earlier actions: every
\* report displayed after it comes from an LLM call of that action, and the
\* displayed batch holds the results of the new URL list only.
C4_NewActionDiscards ==
    lastRun = "diagnose" =>
        LET urls == ParseUrls(urls_text)
        IN  /\ Len(table) = Len(urls)
            /\ \A k \in 1..Len(table) : table[k].URL = urls[k]
            /\ \A k \in DOMAIN sections :
                 ReportShown(sections, k) =>
                     /\ sections[k].body.run = run
                     /\ k \in Range(calls)

\* the second diagnose action of a session, showing a report
C4_Witness ==
    /\ lastRun = "diagnose"
    /\ run = 2
    /\ Len(table) = 1
    /\ ReportShown(sections, 1)
    /\ sections[1].body.run = 2

\* C5: analyze_page_with_llm never raises, whatever fails in it: a rate
\* limit gives the rate-limit block, any other error the generic block, and
\* a failure on one URL's report keeps no other section from being drawn.
C5_ReportNeverRaises ==
    lastRun = "diagnose" =>
        /\ ~crashed
        /\ Len(sections) = Len(results)
        /\ \A k \in Range(calls) :
             /\ ReportShown(sections, k)
             /\ sections[k].body.text.heading \in {"", RateLimitHeading, ErrorHeading}

SettingMissing(v) == v = None \/ v = ""

AnySettingMissing ==
    \/ SettingMissing(config.endpoint)
    \/ SettingMissing(config.deployment)
    \/ SettingMissing(config.subscription_key)

\* C6: with endpoint, deployment or subscription_key absent or empty no LLM
\* call is made; every fetched URL still gets its scores and its score
\* table, and a notice in place of the report.  An LLM call is made only
\* with all three set, and only for a row whose status is OK.
C6_NoLLMWithoutSettings ==
    /\ AnySettingMissing =>
         /\ calls = <<>>
         /\ ~crashed
         /\ Len(sections) = Len(results)
         /\ \A k \in 1..Len(results) :
              results[k].status = OK =>
                  /\ sections[k].kind = "ok"
                  /\ sections[k].URL = results[k].URL
                  /\ [c \in 1..4 |-> sections[k].score_table[c].score]
                       = <<results[k].answerability, results[k].structured,
                           results[k].faq_howto, results[k].brand>>
                  /\ results[k].answerability > 0
                  /\ sections[k].body.kind = "notice"
    /\ \A k \in Range(calls) :
         /\ ~AnySettingMissing
         /\ results[k].status = OK

\* only the deployment is empty: a fetched URL is shown with the notice
C6_Witness ==
    /\ lastRun = "diagnose"
    /\ config.endpoint = "set"
    /\ config.subscription_key = "set"
    /\ config.deployment = ""
    /\ Len(results) = 2
    /\ results[2].status = OK
    /\ sections[2].body.kind = "notice"

(***************************************************************************)
(* The claim about the aggregate (specification SpecScore).                *)
(***************************************************************************)
\* C7: for every combination of category scores the heuristics produce, the
\* overall score is 0.35*A + 0.25*S + 0.25*F + 0.15*B rounded to the nearest
\* integer, also when the sum ends in .5 (it then is the even neighbour, as
\* round() gives it); all scores are integers in 0..100; 100, 100, 80, 100
\* gives 95.
C7_AggregateRounded ==
    sc_out # NotRun =>
        LET r    == sc_out[1]
            A    == r.answerability
            S    == r.structured
            F    == r.faq_howto
            B    == r.brand
            x100 == 35 * A + 25 * S + 25 * F + 15 * B
        IN  /\ A \in {20, 40, 60, 80, 100}
            /\ S \in {50, 70, 80, 100}
            /\ F \in {20, 80}
            /\ B \in {20, 40, 60, 80, 100}
            /\ r.total \in 0..100
            /\ 100 * r.total - x100 \in -50..50
            /\ x100 % 100 = 50 => r.total % 2 = 0
            /\ (A = 100 /\ S = 100 /\ F = 80 /\ B = 100) => r.total = 95

\* a sum that ends in .5: 21 + 12.5 + 20 + 9 = 62.5
C7_Witness ==
    /\ sc_out # NotRun
    /\ sc_out[1].answerability = 60
    /\ sc_out[1].structured = 50
    /\ sc_out[1].faq_howto = 80
    /\ sc_out[1].brand = 60
    /\ sc_out[1].total = 62

(***************************************************************************)
(* The claim about the extractor (specification SpecExtract).              *)
(***************************************************************************)
IsHeading(node) == node.tag \in {"h1", "h2", "h3"}

HasHeading(doc) == \E i \in 1..Len(doc) : IsHeading(doc[i])

UpperTag(tag) ==
    IF tag = "h1" THEN <<"H", "1">> ELSE IF tag = "h2" THEN <<"H", "2">>
    ELSE <<"H", "3">>

\* the paragraph siblings that follow element i
ParagraphsAfter(doc, i) ==
    {j \in 1..Len(doc) : j > i /\ doc[j].tag = "p" /\ doc[j].parent = doc[i].parent}

\* the heading line of element i and, when a paragraph sibling follows, the
\* bulleted text of the nearest one
ExpectedBlock(doc, i) ==
    LET ps == ParagraphsAfter(doc, i)
        heading == <<"[">> \o UpperTag(doc[i].tag) \o <<"]", SP>> \o strip(doc[i].text)
    IN  IF ps = {} THEN <<heading>>
        ELSE <<heading, <<"-", SP>> \o strip(doc[CHOOSE j \in ps : \A q \in ps : j <= q].text)>>

\* the blocks of the elements from..Len(doc) whose tag is in tags, in order
RECURSIVE ExpectedBlocks(_, _, _)
ExpectedBlocks(doc, tags, from) ==
    IF from > Len(doc) THEN <<>>
    ELSE IF doc[from].tag \in tags
         THEN ExpectedBlock(doc, from) \o ExpectedBlocks(doc, tags, from + 1)
         ELSE ExpectedBlocks(doc, tags, from + 1)

\* [H1] of the first h1, then every h2 and h3 in document order
ExpectedLines(doc) ==
    LET h1s == {i \in 1..Len(doc) : doc[i].tag = "h1"}
    IN  (IF h1s = {} THEN <<>>
         ELSE ExpectedBlock(doc, CHOOSE i \in h1s : \A q \in h1s : i <= q))
        \o ExpectedBlocks(doc, {"h2", "h3"}, 1)

\* the text nodes, stripped, the empty ones left out, with one space between
RECURSIVE VisibleText(_, _)
VisibleText(doc, from) ==
    IF from > Len(doc) THEN <<>>
    ELSE LET t    == strip(doc[from].text)
             rest == VisibleText(doc, from + 1)
         IN  IF t = <<>> THEN rest
             ELSE IF rest = <<>> THEN t
             ELSE t \o <<SP>> \o rest

RECURSIVE DropLeadingEmpty(_)
DropLeadingEmpty(cells) ==
    IF cells # <<>> /\ Head(cells) = <<>> THEN DropLeadingEmpty(Tail(cells)) ELSE cells

RECURSIVE DropTrailingEmpty(_)
DropTrailingEmpty(cells) ==
    IF cells # <<>> /\ cells[Len(cells)] = <<>>
    THEN DropTrailingEmpty(SubSeq(cells, 1, Len(cells) - 1)) ELSE cells

\* the cells of a row: split on |, each cell trimmed, the empty pieces before
\* the first and after the last cell dropped, the empty cells between kept
CellsOf(row) == DropTrailingEmpty(DropLeadingEmpty(StripAll(split(row, PIPE))))

SeparatorRow(row) ==
    /\ CellsOf(row) # <<>>
    /\ \A c \in 1..Len(CellsOf(row)) :
         \A k \in 1..Len(CellsOf(row)[c]) : CellsOf(row)[c][k] \in {"-", ":", SP}

AllEmptyRow(row) == \A c \in 1..Len(CellsOf(row)) : CellsOf(row)[c] = <<>>

\* C9: of a rendered table the first row is the header, drawn once; no
\* separator row is drawn, second or later; a data row is drawn if and only
\* if it is no separator row, not all-empty, and has as many cells as the
\* header (empty cells between two cells counted); drawn rows keep their order.
C9_TableRows ==
    (tb_out # NotRun /\ tb_out[1].headers # <<>>) =>
        LET drawn == tb_out[1].rows
            first == IF SeparatorRow(tb_lines[2]) THEN 3 ELSE 2
        IN  /\ Len(tb_out[1].headers) = 1
            /\ \A k \in first..Len(tb_lines) :
                 (\E d \in 1..Len(drawn) : drawn[d].src = k)
                 <=> /\ ~SeparatorRow(tb_lines[k])
                     /\ ~AllEmptyRow(tb_lines[k])
                     /\ Len(CellsOf(tb_lines[k])) = Len(CellsOf(tb_lines[1]))
            /\ \A d \in 1..Len(drawn) : ~SeparatorRow(tb_lines[drawn[d].src])
            /\ \A d, e \in 1..Len(drawn) : d < e => drawn[d].src < drawn[e].src

(***************************************************************************)
(* The claim about add_markdown (specification SpecMd).                    *)
(***************************************************************************)
Handlers == {"fence", "blank", "heading", "table", "list", "text"}

StartsWithPipe(raw) ==
    \E k \in 1..Len(raw) :
        /\ raw[k] = PIPE
        /\ \A q \in 1..(k - 1) : raw[q] \in {SP, NL}

\* the dispatches so far cover the lines 1..md_i-1, each line once, and a
\* table block is a maximal run of lines that start with |
MdCoversOnce ==
    md_lines # <<>> =>
    /\ md_i = (IF md_log = <<>> THEN 1 ELSE md_log[Len(md_log)].to + 1)
    /\ md_i <= Len(md_lines) + 1
    /\ \A k \in 1..Len(md_log) :
         LET e == md_log[k]
         IN  /\ e.handler \in Handlers
             /\ e.from = (IF k = 1 THEN 1 ELSE md_log[k - 1].to + 1)
             /\ e.from <= e.to
             /\ e.handler # "table" =>
                  e.from = e.to /\ ~StartsWithPipe(md_lines[e.from])
             /\ e.handler = "table" =>
                  /\ \A q \in e.from..e.to : StartsWithPipe(md_lines[q])
                  /\ e.to < Len(md_lines) => ~StartsWithPipe(md_lines[e.to + 1])

\* C10: add_markdown is one forward pass that ends: the index grows in every
\* iteration, every line is consumed by exactly one handler, and a table
\* block consumes exactly the maximal run of lines starting with |, the line
\* after the run being dispatched next.
C10_SinglePass ==
    /\ []MdCoversOnce
    /\ [][md_i' > md_i]_vars
    /\ (md_lines # <<>>) ~> (md_lines # <<>> /\ md_i = Len(md_lines) + 1)

\* the pass is through: a table block of two lines, then one more line
C10_Witness ==
    /\ md_lines # <<>>
    /\ md_i = Len(md_lines) + 1
    /\ Len(md_lines) = 3
    /\ Len(md_log) = 2
    /\ md_log[1].handler = "table"
    /\ md_log[1].to = 2
    /\ md_log[2].handler # "table"

====
